---- MODULE Spec2Model ----
(***************************************************************************)
(* A model of the MBTA vehicle ETL: the two normalizers                    *)
(* (transformer.VehicleTransformer.TransformVehicles and                   *)
(* pipeline.ETLPipeline.Transform), the transactional bulk upsert          *)
(* (vehiclestore.VehicleStore.Load / pipeline.ETLPipeline.Load) and the    *)
(* orchestrators (etl.Pipeline.Run / pipeline.ETLPipeline.Run).            *)
(*                                                                         *)
(* Time is counted in whole hours.  A time.Time is [unix, off]: the        *)
(* instant and the zone offset of its location.  A timestamp string is     *)
(* [enc, wall, off]: how it is encoded, the wall-clock reading it spells   *)
(* and the zone suffix it carries.  Floats are whole numbers; a *float64   *)
(* or *int is <<>> for nil and <<v>> for a pointer to v.  The vehicles     *)
(* table is the sequence of its rows in rowid order.                       *)
(***************************************************************************)
EXTENDS Integers, Sequences, FiniteSets, TLC

VARIABLES
    rows,     \* the committed rows of table vehicles, in rowid order
    pc,       \* where the current Run stands
    impl,     \* which wiring runs: "etl" (etl.Pipeline) or "pipeline" (ETLPipeline)
    resp,     \* the HTTP response the fetch of the current Run received
    records,  \* the normalizer's output in the current Run
    now,      \* the `now` the normalizer captured in the current Run
    tx,       \* the rows as the open transaction sees them
    i,        \* index of the next record the Load loop executes
    err,      \* what the last Run returned
    calls,    \* the steps the current Run has invoked, in order
    clock,    \* the wall clock
    handle,   \* the *sql.DB of the store: "none", "open" or "closed"
    schema,   \* the tables and indexes the database file holds
    out,      \* what the last query or Init call on the store returned
    engine    \* the order in which the SQL engine returns rows that tie

vars == <<rows, pc, impl, resp, records, now, tx, i, err, calls, clock,
          handle, schema, out, engine>>

\* Longest batch a fetch returns in Spec.
MaxBatch == 2
\* Longest batch handed to a normalizer in SpecT.
MaxInput == 2
\* The wall clock runs over 0..MaxClock.
MaxClock == 1

(***************************************************************************)
(* Values                                                                  *)
(***************************************************************************)

Nil == <<>>

Ptr(v) == <<v>>

\* "2024-01-15T10:30:00-05:00", the timestamp the tests feed
GoodStamp == [enc |-> "rfc3339", wall |-> 10, off |-> -5]

\* a string time.Parse rejects, such as "" or "invalid"
BadStamp == [enc |-> "garbage", wall |-> 0, off |-> 0]

\* a value that carries no time (the zero time.Time)
ZeroTime == [unix |-> -1000, off |-> 0]

\* model.Vehicle with its Attributes flattened
Vehicle(id, label, speed, bearing, cs, os, stamp) ==
    [ID |-> id, Label |-> label, Latitude |-> 42, Longitude |-> -71,
     Speed |-> speed, Bearing |-> bearing, DirectionID |-> 0,
     CurrentStatus |-> cs, OccupancyStatus |-> os, UpdatedAt |-> stamp]

\* The entries a normalizer is tried on in SpecT: every combination of the
\* rejection fields with the nullable numbers, and every combination of the
\* two statuses with the timestamp.
RawEntries ==
    { Vehicle(id, label, speed, bearing, "STOPPED_AT", "FEW_SEATS_AVAILABLE", GoodStamp) :
        id \in {"", "R-1"}, label \in {"", "1234"},
        speed \in {Nil, Ptr(-5), Ptr(30)}, bearing \in {Nil, Ptr(90)} }
    \cup
    { Vehicle("y1", "5678", Ptr(0), Ptr(10), cs, os, stamp) :
        cs \in {"", "IN_TRANSIT_TO"}, os \in {"", "MANY_SEATS_AVAILABLE"},
        stamp \in {GoodStamp, BadStamp} }

\* The entries the feed serves in Spec.
FeedEntries ==
    { Vehicle("", "1234", Ptr(30), Ptr(90), "STOPPED_AT", "FEW_SEATS_AVAILABLE", GoodStamp),
      Vehicle("R-1", "", Ptr(30), Ptr(90), "STOPPED_AT", "FEW_SEATS_AVAILABLE", GoodStamp),
      Vehicle("R-1", "1234", Ptr(30), Ptr(90), "STOPPED_AT", "FEW_SEATS_AVAILABLE", GoodStamp),
      Vehicle("R-1", "1234", Ptr(-5), Nil, "STOPPED_AT", "FEW_SEATS_AVAILABLE", GoodStamp),
      Vehicle("y1", "5678", Ptr(0), Ptr(10), "", "", BadStamp) }

\* Sequences over S of length at most n.
SeqUpTo(S, n) == UNION { [1..k -> S] : k \in 0..n }

(***************************************************************************)
(* package time                                                            *)
(***************************************************************************)

\* time.Now(): the wall clock, in the machine's zone (UTC-5 here)
TimeNow(c) == [unix |-> 100 + c, off |-> -5]

\* Time.UTC(): the same instant, located in UTC
UTC(t) == [unix |-> t.unix, off |-> 0]

\* time.Parse(time.RFC3339, s): the time, and whether it returned an error
ParseRFC3339(s) ==
    IF s.enc = "rfc3339"
    THEN [t |-> [unix |-> s.wall - s.off, off |-> s.off], failed |-> FALSE]
    ELSE [t |-> ZeroTime, failed |-> TRUE]

\* Time.Format(time.RFC3339)
FormatRFC3339(t) == [enc |-> "rfc3339", wall |-> t.unix + t.off, off |-> t.off]

\* A time.Time handed to the driver as a statement argument.
DriverTime(t) == [enc |-> "driver", wall |-> t.unix + t.off, off |-> t.off]

(***************************************************************************)
(* The normalizers                                                         *)
(***************************************************************************)

\* (mutant) the status is passed through as it came.
normalizeStatusKeep(status) == status

\* transformer.normalizeStatus
normalizeStatus(status) == IF status = "" THEN "UNKNOWN" ELSE status

\* pipeline.normalizeStatus
pipeline_normalizeStatus(status) == IF status = "" THEN "UNKNOWN" ELSE status

\* (mutant) only the ID is tested.
SkipVehicleIdOnly(v) == v.ID = ""

\* `if v.ID == "" || v.Attributes.Label == "" { continue }` of TransformVehicles
SkipVehicle(v) == v.ID = "" \/ v.Label = ""

\* the same test in ETLPipeline.Transform
SkipEntry(v) == v.ID = "" \/ v.Label = ""

\* (mutant) the parse error is dropped: `updatedAt, _ := time.Parse(...)`.
ParseOrZero(stamp, n) == ParseRFC3339(stamp).t

\* `updatedAt, err := time.Parse(...); if err != nil { updatedAt = now }`
ParseOrNow(stamp, n) ==
    LET p == ParseRFC3339(stamp) IN IF p.failed THEN n ELSE p.t

\* (mutant) the pointer is never read.
DerefOrDefault(p, d) == d

\* `x := d; if p != nil { x = *p }`
DerefOr(p, d) == IF p # Nil THEN p[1] ELSE d

\* `if speed < 0 { speed = 0.0 }`
ClampSpeed(speed) == IF speed < 0 THEN 0 ELSE speed

\* the record TransformVehicles builds from one vehicle it keeps
TransformVehiclesRecord(v, n) ==
    [ID |-> v.ID, Label |-> v.Label,
     Latitude |-> v.Latitude, Longitude |-> v.Longitude,
     Speed |-> ClampSpeed(DerefOr(v.Speed, 0)),
     DirectionID |-> v.DirectionID,
     CurrentStatus |-> normalizeStatus(v.CurrentStatus),
     OccupancyStatus |-> normalizeStatus(v.OccupancyStatus),
     Bearing |-> DerefOr(v.Bearing, 0),
     UpdatedAt |-> UTC(ParseOrNow(v.UpdatedAt, n)),
     IngestedAt |-> n]

\* the record ETLPipeline.Transform builds from one vehicle it keeps
TransformRecord(v, n) ==
    [ID |-> v.ID, Label |-> v.Label,
     Latitude |-> v.Latitude, Longitude |-> v.Longitude,
     Speed |-> DerefOr(v.Speed, 0),
     DirectionID |-> v.DirectionID,
     CurrentStatus |-> pipeline_normalizeStatus(v.CurrentStatus),
     OccupancyStatus |-> pipeline_normalizeStatus(v.OccupancyStatus),
     Bearing |-> DerefOr(v.Bearing, 0),
     UpdatedAt |-> ParseOrNow(v.UpdatedAt, n),
     IngestedAt |-> n]

\* the loop of TransformVehicles over `vehicles`, appending to `records`
RECURSIVE TransformVehiclesLoop(_, _)
TransformVehiclesLoop(vehicles, n) ==
    IF vehicles = <<>> THEN <<>>
    ELSE LET v == Head(vehicles)
             rest == TransformVehiclesLoop(Tail(vehicles), n)
         IN IF SkipVehicle(v) THEN rest ELSE <<TransformVehiclesRecord(v, n)>> \o rest

\* the loop of ETLPipeline.Transform
RECURSIVE TransformLoop(_, _)
TransformLoop(vehicles, n) ==
    IF vehicles = <<>> THEN <<>>
    ELSE LET v == Head(vehicles)
             rest == TransformLoop(Tail(vehicles), n)
         IN IF SkipEntry(v) THEN rest ELSE <<TransformRecord(v, n)>> \o rest

(***************************************************************************)
(* The fetch                                                               *)
(***************************************************************************)

\* What the HTTP GET can come back with: a transport error; a non-200 status
\* (an error document, which is JSON without "data", or no JSON at all); a body
\* that cannot be read; a body that is not JSON; or 200 with a batch.
Response(transport, status, readable, json, data) ==
    [transport |-> transport, status |-> status, readable |-> readable,
     json |-> json, data |-> data]

FailedResponses ==
    { Response("error", 0, FALSE, FALSE, <<>>),
      Response("ok", 500, TRUE, TRUE, <<>>),
      Response("ok", 500, TRUE, FALSE, <<>>),
      Response("ok", 200, FALSE, TRUE, <<>>),
      Response("ok", 200, TRUE, FALSE, <<>>) }

Responses(S, n) ==
    FailedResponses \cup { Response("ok", 200, TRUE, TRUE, b) : b \in SeqUpTo(S, n) }

NoResponse == Response("none", 0, FALSE, FALSE, <<>>)

\* (mutant) the status code is not looked at.
FetchVehiclesErrAnyStatus(r) ==
    IF r.transport # "ok" THEN "failed to fetch data"
    ELSE IF ~r.readable \/ ~r.json THEN "failed to parse JSON"
    ELSE "nil"

\* MBTAClient.FetchVehicles: the error it returns, "nil" for none
FetchVehiclesErr(r) ==
    IF r.transport # "ok" THEN "failed to fetch data"
    ELSE IF r.status # 200 THEN "API returned status"
    ELSE IF ~r.readable \/ ~r.json THEN "failed to parse JSON"
    ELSE "nil"

\* ETLPipeline.Extract: the error it returns, "nil" for none
ExtractErr(r) ==
    IF r.transport # "ok" THEN "failed to fetch data"
    ELSE IF r.status # 200 THEN "API returned status"
    ELSE IF ~r.readable THEN "failed to read response"
    ELSE IF ~r.json THEN "failed to parse JSON"
    ELSE "nil"

(***************************************************************************)
(* The store                                                               *)
(***************************************************************************)

\* the arguments VehicleStore.Load binds for one record
VehicleStoreArgs(record) ==
    [id |-> record.ID, label |-> record.Label,
     latitude |-> record.Latitude, longitude |-> record.Longitude,
     speed |-> record.Speed, direction_id |-> record.DirectionID,
     current_status |-> record.CurrentStatus,
     occupancy_status |-> record.OccupancyStatus,
     bearing |-> record.Bearing,
     updated_at |-> FormatRFC3339(record.UpdatedAt),
     ingested_at |-> FormatRFC3339(record.IngestedAt)]

\* the arguments ETLPipeline.Load binds for one record
ETLPipelineArgs(r) ==
    [id |-> r.ID, label |-> r.Label,
     latitude |-> r.Latitude, longitude |-> r.Longitude,
     speed |-> r.Speed, direction_id |-> r.DirectionID,
     current_status |-> r.CurrentStatus,
     occupancy_status |-> r.OccupancyStatus,
     bearing |-> r.Bearing,
     updated_at |-> DriverTime(r.UpdatedAt),
     ingested_at |-> DriverTime(r.IngestedAt)]

LoadArgs(w, r) == IF w = "etl" THEN VehicleStoreArgs(r) ELSE ETLPipelineArgs(r)

\* (mutant) a plain INSERT into a table that has no key: the row is added.
InsertAppend(table, row) == Append(table, row)

\* (mutant) INSERT OR IGNORE: a row that holds the key already is kept.
InsertOrIgnore(table, row) ==
    IF \E k \in DOMAIN table : table[k].id = row.id THEN table ELSE Append(table, row)

\* INSERT OR REPLACE INTO vehicles (...) VALUES (...): the row that holds the
\* primary key, if any, is deleted and the new row gets the next rowid.
InsertOrReplace(table, row) ==
    SelectSeq(table, LAMBDA x : x.id # row.id) \o <<row>>

\* The whole loop of Load over `records`, run on `table` by wiring w.
RECURSIVE UpsertAll(_, _, _)
UpsertAll(table, recs, w) ==
    IF recs = <<>> THEN table
    ELSE UpsertAll(InsertOrReplace(table, LoadArgs(w, Head(recs))), Tail(recs), w)

\* (mutant) the transaction's writes were made outside any transaction.
RollbackKeepsWrites(committed, pending) == pending

\* tx.Rollback() on a transaction that is still open: its writes are dropped.
Rollback(committed, pending) == committed

\* tx.Commit(): the transaction's writes become the committed rows.
Commit(committed, pending) == pending

\* what the schema of Init / initDatabase creates
Objects == {"vehicles", "idx_updated_at", "idx_label"}

\* what a call on the store returned: the method, its arguments (filled in
\* where it takes any), its error ("nil" for none) and its value
Result(op, e, val) == [op |-> op, args |-> <<>>, err |-> e, val |-> val]

NoResult == Result("none", "nil", <<>>)

(***************************************************************************)
(* Run: fetch, normalize, upsert.  A process runs one wiring, etl.Pipeline *)
(* over MBTAClient, VehicleTransformer and VehicleStore ("etl"), or the    *)
(* ETLPipeline of package pipeline ("pipeline"), against its database.     *)
(***************************************************************************)

Init ==
    /\ rows = <<>>
    /\ pc = "idle"
    /\ impl \in {"etl", "pipeline"}
    /\ resp = NoResponse
    /\ records = <<>>
    /\ now = ZeroTime
    /\ tx = <<>>
    /\ i = 1
    /\ err = "nil"
    /\ calls = <<>>
    /\ clock = 0
    /\ handle = "open"
    /\ schema = Objects
    /\ out = NoResult
    /\ engine = "rowid"

\* Run returns e and its locals go.
Return(e) ==
    /\ pc' = "idle"
    /\ err' = e
    /\ tx' = <<>>
    /\ resp' = NoResponse
    /\ records' = <<>>
    /\ now' = ZeroTime
    /\ i' = 1

\* etl.Pipeline.Run, step 1: p.APIClient.FetchVehicles() is called and the
\* GET comes back.
FetchVehicles ==
    /\ pc = "idle"
    /\ impl = "etl"
    /\ handle # "none"
    /\ resp' \in Responses(FeedEntries, MaxBatch)
    /\ pc' = "fetched"
    /\ err' = "nil"
    /\ calls' = <<"Extract">>
    /\ UNCHANGED <<rows, impl, records, now, tx, i, clock>>
    /\ UNCHANGED <<handle, schema, out, engine>>

\* pipeline.ETLPipeline.Run, step 1: p.Extract() is called and the GET comes
\* back.
Extract ==
    /\ pc = "idle"
    /\ impl = "pipeline"
    /\ handle # "none"
    /\ resp' \in Responses(FeedEntries, MaxBatch)
    /\ pc' = "fetched"
    /\ err' = "nil"
    /\ calls' = <<"Extract">>
    /\ UNCHANGED <<rows, impl, records, now, tx, i, clock>>
    /\ UNCHANGED <<handle, schema, out, engine>>

\* the error the fetch of this wiring returns for response r
FetchErr(w, r) == IF w = "etl" THEN FetchVehiclesErr(r) ELSE ExtractErr(r)

\* Run: `if err != nil { return fmt.Errorf("extract failed: %w", err) }`
ExtractFailed ==
    /\ pc = "fetched"
    /\ FetchErr(impl, resp) # "nil"
    /\ Return("extract failed")
    /\ UNCHANGED <<rows, impl, calls, clock>>
    /\ UNCHANGED <<handle, schema, out, engine>>

\* etl.Pipeline.Run, step 2: p.Transformer.TransformVehicles(vehicleResp.Data);
\* `now := time.Now().UTC()` is read once, before the loop.
TransformVehicles ==
    /\ pc = "fetched"
    /\ impl = "etl"
    /\ FetchErr(impl, resp) = "nil"
    /\ now' = UTC(TimeNow(clock))
    /\ records' = TransformVehiclesLoop(resp.data, now')
    /\ calls' = Append(calls, "Transform")
    /\ pc' = "transformed"
    /\ UNCHANGED <<rows, impl, resp, tx, i, err, clock>>
    /\ UNCHANGED <<handle, schema, out, engine>>

\* pipeline.ETLPipeline.Run, step 2: p.Transform(vehicleResp.Data);
\* `now := time.Now()` is read once, before the loop.
Transform ==
    /\ pc = "fetched"
    /\ impl = "pipeline"
    /\ FetchErr(impl, resp) = "nil"
    /\ now' = TimeNow(clock)
    /\ records' = TransformLoop(resp.data, now')
    /\ calls' = Append(calls, "Transform")
    /\ pc' = "transformed"
    /\ UNCHANGED <<rows, impl, resp, tx, i, err, clock>>
    /\ UNCHANGED <<handle, schema, out, engine>>

\* Load: r.db.Begin(), which fails on a handle that is closed
LoadBegin ==
    /\ pc = "transformed"
    /\ calls' = Append(calls, "Load")
    /\ \/ /\ handle = "open"
          /\ pc' = "begun"
          /\ tx' = rows
          /\ UNCHANGED <<rows, resp, records, now, i, err>>
       \/ /\ Return("load failed: failed to begin transaction")
          /\ UNCHANGED rows
    /\ UNCHANGED <<impl, clock>>
    /\ UNCHANGED <<handle, schema, out, engine>>

\* Load: tx.Prepare(`INSERT OR REPLACE INTO vehicles ...`); from here on
\* `defer tx.Rollback()` runs when Load returns.
LoadPrepare ==
    /\ pc = "begun"
    /\ \/ /\ pc' = "prepared"
          /\ UNCHANGED <<rows, resp, records, now, tx, i, err>>
       \/ /\ Return("load failed: failed to prepare statement")
          /\ rows' = Rollback(rows, tx)
    /\ UNCHANGED <<impl, calls, clock>>
    /\ UNCHANGED <<handle, schema, out, engine>>

\* Load: one turn of `for _, record := range records { stmt.Exec(...) }`
LoadExec ==
    /\ pc = "prepared"
    /\ i <= Len(records)
    /\ \/ /\ tx' = InsertOrReplace(tx, LoadArgs(impl, records[i]))
          /\ i' = i + 1
          /\ UNCHANGED <<rows, pc, resp, records, now, err>>
       \/ /\ Return("load failed: failed to insert record")
          /\ rows' = Rollback(rows, tx)
    /\ UNCHANGED <<impl, calls, clock>>
    /\ UNCHANGED <<handle, schema, out, engine>>

\* Load: tx.Commit() once the loop is over; Run then returns what Load did.
\* A commit that fails publishes nothing.
LoadCommit ==
    /\ pc = "prepared"
    /\ i > Len(records)
    /\ \/ /\ rows' = Commit(rows, tx)
          /\ Return("nil")
       \/ /\ Return("load failed: failed to commit transaction")
          /\ rows' = Rollback(rows, tx)
    /\ UNCHANGED <<impl, calls, clock>>
    /\ UNCHANGED <<handle, schema, out, engine>>

\* The wall clock advances between runs (a run reads it once, in its
\* normalizer).
Tick ==
    /\ pc = "idle"
    /\ clock < MaxClock
    /\ clock' = clock + 1
    /\ UNCHANGED <<rows, pc, impl, resp, records, now, tx, i, err, calls>>
    /\ UNCHANGED <<handle, schema, out, engine>>

Next ==
    \/ FetchVehicles
    \/ Extract
    \/ ExtractFailed
    \/ TransformVehicles
    \/ Transform
    \/ LoadBegin
    \/ LoadPrepare
    \/ LoadExec
    \/ LoadCommit
    \/ Tick

Spec == Init /\ [][Next]_vars

(***************************************************************************)
(* The normalizers alone: any batch over RawEntries, handed to either one   *)
(* at any reading of the clock.                                             *)
(***************************************************************************)

InitT ==
    /\ rows = <<>>
    /\ pc = "fetched"
    /\ impl \in {"etl", "pipeline"}
    /\ resp \in { Response("ok", 200, TRUE, TRUE, b) : b \in SeqUpTo(RawEntries, MaxInput) }
    /\ records = <<>>
    /\ now = ZeroTime
    /\ tx = <<>>
    /\ i = 1
    /\ err = "nil"
    /\ calls = <<"Extract">>
    /\ clock \in 0..MaxClock
    /\ handle = "open"
    /\ schema = Objects
    /\ out = NoResult
    /\ engine = "rowid"

NextT ==
    \/ TransformVehicles
    \/ Transform

SpecT == InitT /\ [][NextT]_vars

(***************************************************************************)
(* The queries.  SQL is modelled by what SQLite computes: LIKE folds the   *)
(* case of ASCII letters, an aggregate over no rows is NULL (COUNT is 0),  *)
(* rows that tie under ORDER BY come in an order the engine picks.         *)
(***************************************************************************)

\* LIMIT 10 of GetTop10FastestVehicles
TopLimit == 10

\* The stores the queries are tried on hold the vehicles Start+1..Start+n of
\* the roster, for Start up to MaxStart and n up to MaxFleet.
MaxStart == 8
MaxFleet == 12

\* a model.VehicleRecord as a caller of Load builds it
VehicleRecord(id, speed, bearing, cs, os) ==
    [ID |-> id, Label |-> "1234", Latitude |-> 42, Longitude |-> -71,
     Speed |-> speed, DirectionID |-> 0,
     CurrentStatus |-> cs, OccupancyStatus |-> os, Bearing |-> bearing,
     UpdatedAt |-> [unix |-> 15, off |-> 0], IngestedAt |-> UTC(TimeNow(0))]

\* Vehicles of every route prefix, moving, stationary and with a negative
\* speed, some at the same speed, heading to the middle and to both edges of
\* the compass sectors.
Roster ==
    << VehicleRecord("R-1", 30, 90, "STOPPED_AT", "FEW_SEATS_AVAILABLE"),
       VehicleRecord("O-2", 0, 10, "IN_TRANSIT_TO", "MANY_SEATS_AVAILABLE"),
       VehicleRecord("y1", 30, 350, "IN_TRANSIT_TO", "FEW_SEATS_AVAILABLE"),
       VehicleRecord("g-3", 10, 330, "INCOMING_AT", "UNKNOWN"),
       VehicleRecord("A", 70, 180, "IN_TRANSIT_TO", "MANY_SEATS_AVAILABLE"),
       VehicleRecord("ynk5", 40, 360, "UNKNOWN", "MANY_SEATS_AVAILABLE"),
       VehicleRecord("B-4", -5, 5, "STOPPED_AT", "UNKNOWN"),
       VehicleRecord("R-7", 0, 22, "STOPPED_AT", "FULL"),
       VehicleRecord("y8", 5, 23, "IN_TRANSIT_TO", "MANY_SEATS_AVAILABLE"),
       VehicleRecord("Z", 15, 337, "INCOMING_AT", "FEW_SEATS_AVAILABLE"),
       VehicleRecord("R-9", 20, 338, "IN_TRANSIT_TO", "UNKNOWN"),
       VehicleRecord("O-10", 25, 359, "STOPPED_AT", "MANY_SEATS_AVAILABLE"),
       VehicleRecord("y11", 35, 45, "IN_TRANSIT_TO", "FEW_SEATS_AVAILABLE"),
       VehicleRecord("G-12", 45, 135, "IN_TRANSIT_TO", "MANY_SEATS_AVAILABLE"),
       VehicleRecord("b-13", 50, 225, "STOPPED_AT", "UNKNOWN"),
       VehicleRecord("R-14", 55, 270, "IN_TRANSIT_TO", "MANY_SEATS_AVAILABLE") >>

\* the n vehicles of the roster after the first `start`, the roster taken
\* round
Fleet(start, n) ==
    [k \in 1..n |-> Roster[((start + k - 1) % Len(Roster)) + 1]]

\* The stores the queries are tried on: what Load leaves of a fleet.
Stores(w) ==
    { UpsertAll(<<>>, Fleet(start, n), w) : start \in 0..MaxStart, n \in 0..MaxFleet }

\* the characters of an id (an id of one character is that character)
Chars(id) ==
    CASE id = "" -> <<>>
      [] id = "R-1" -> <<"R", "-", "1">>
      [] id = "O-2" -> <<"O", "-", "2">>
      [] id = "y1" -> <<"y", "1">>
      [] id = "g-3" -> <<"g", "-", "3">>
      [] id = "ynk5" -> <<"y", "n", "k", "5">>
      [] id = "B-4" -> <<"B", "-", "4">>
      [] id = "R-7" -> <<"R", "-", "7">>
      [] id = "y8" -> <<"y", "8">>
      [] id = "R-9" -> <<"R", "-", "9">>
      [] id = "O-10" -> <<"O", "-", "1", "0">>
      [] id = "y11" -> <<"y", "1", "1">>
      [] id = "G-12" -> <<"G", "-", "1", "2">>
      [] id = "b-13" -> <<"b", "-", "1", "3">>
      [] id = "R-14" -> <<"R", "-", "1", "4">>
      [] OTHER -> <<id>>

\* SQLite's case folding of an ASCII letter
Lower(c) ==
    CASE c = "R" -> "r" [] c = "O" -> "o" [] c = "G" -> "g" [] c = "B" -> "b"
      [] c = "Y" -> "y" [] c = "N" -> "n" [] c = "K" -> "k" [] OTHER -> c

\* `id LIKE '<prefix>%'`
Like(id, prefix) ==
    LET c == Chars(id)
    IN /\ Len(c) >= Len(prefix)
       /\ \A k \in DOMAIN prefix : Lower(c[k]) = Lower(prefix[k])

\* The orders ORDER BY may give rows that tie: by rowid, or by rowid reversed.
TieOrders == {"rowid", "reverse"}

\* ORDER BY: q sorted by ascending key, key[k] being the sort key of q[k]
OrderBy(q, key, tie) ==
    LET first(j, k) == IF tie = "rowid" THEN j < k ELSE j > k
        pos(k) == 1 + Cardinality({ j \in DOMAIN q :
                        \/ key[j] < key[k]
                        \/ key[j] = key[k] /\ first(j, k) })
    IN [p \in DOMAIN q |-> q[CHOOSE k \in DOMAIN q : pos(k) = p]]

\* ORDER BY speed / ORDER BY speed DESC
BySpeed(q) == [k \in DOMAIN q |-> q[k].speed]

BySpeedDesc(q) == [k \in DOMAIN q |-> 0 - q[k].speed]

\* ORDER BY count DESC
ByCountDesc(q) == [k \in DOMAIN q |-> 0 - q[k].count]

\* LIMIT n OFFSET o
LimitOffset(q, n, o) ==
    IF o >= Len(q) THEN <<>>
    ELSE SubSeq(q, o + 1, IF o + n < Len(q) THEN o + n ELSE Len(q))

\* a timestamp column as the row scan of wiring w hands it back
ScanTime(w, col) ==
    IF w = "etl" THEN ParseRFC3339(col).t
    ELSE [unix |-> col.wall - col.off, off |-> col.off]

\* rows.Scan(&r.ID, ..., &r.IngestedAt) on one row
ScanRecord(w, row) ==
    [ID |-> row.id, Label |-> row.label,
     Latitude |-> row.latitude, Longitude |-> row.longitude,
     Speed |-> row.speed, DirectionID |-> row.direction_id,
     CurrentStatus |-> row.current_status,
     OccupancyStatus |-> row.occupancy_status,
     Bearing |-> row.bearing,
     UpdatedAt |-> ScanTime(w, row.updated_at),
     IngestedAt |-> ScanTime(w, row.ingested_at)]

\* queryVehicles: the rows the query selects, scanned in the order they come
queryVehicles(w, selected) ==
    [k \in DOMAIN selected |-> ScanRecord(w, selected[k])]

\* (mutant) ORDER BY speed, ascending.
Top10Ascending(w, table, tie) ==
    queryVehicles(w,
        LimitOffset(OrderBy(table, BySpeed(table), tie), TopLimit, 0))

\* `SELECT ... FROM vehicles ORDER BY speed DESC LIMIT 10`
Top10(w, table, tie) ==
    queryVehicles(w,
        LimitOffset(OrderBy(table, BySpeedDesc(table), tie), TopLimit, 0))

\* SQL NULL where a REAL is expected (what a division by zero gives)
Null == [num |-> 0, den |-> 0]

\* a REAL that SQL computed: the quotient num / den
Quot(num, den) == [num |-> num, den |-> den]

\* SUM(speed), 0 for no rows
RECURSIVE SumSpeed(_)
SumSpeed(q) == IF q = <<>> THEN 0 ELSE Head(q).speed + SumSpeed(Tail(q))

\* AVG(speed)
AvgSpeed(q) == IF q = <<>> THEN Null ELSE Quot(SumSpeed(q), Len(q))

\* MAX(speed)
MaxSpeed(q) ==
    IF q = <<>> THEN Null
    ELSE Quot(CHOOSE m \in { q[k].speed : k \in DOMAIN q } :
                  \A k \in DOMAIN q : q[k].speed <= m, 1)

\* MIN(speed)
MinSpeed(q) ==
    IF q = <<>> THEN Null
    ELSE Quot(CHOOSE m \in { q[k].speed : k \in DOMAIN q } :
                  \A k \in DOMAIN q : q[k].speed >= m, 1)

\* CAST(SUM(CASE WHEN occupancy_status = s THEN 1 ELSE 0 END) AS REAL) * 100.0
\* / COUNT(*): SUM over no rows is NULL, and so is what is computed from it
OccupancyPercent(q, s) ==
    IF q = <<>> THEN Null
    ELSE Quot(100 * Len(SelectSeq(q, LAMBDA x : x.occupancy_status = s)), Len(q))

\* num / den rounded to the nearest integer, a half to the even one, as
\* strconv rounds the digits it prints
RoundDiv(num, den) ==
    LET q == num \div den
        r == num - q * den
    IN IF 2 * r < den THEN q
       ELSE IF 2 * r > den THEN q + 1
       ELSE IF q % 2 = 0 THEN q ELSE q + 1

\* fmt.Sprintf("%.2f mph", x): the text, as its value in hundredths
SprintfMph(x) == [fix |-> RoundDiv(100 * x.num, x.den), places |-> 2, unit |-> "mph"]

\* fmt.Sprintf("%.1f%%", x): the text, as its value in tenths
SprintfPct(x) == [fix |-> RoundDiv(10 * x.num, x.den), places |-> 1, unit |-> "%"]

\* the literal "0.0%"
ZeroPct == [fix |-> 0, places |-> 1, unit |-> "%"]

\* Scan of a column into a *float64 that holds `held`: NULL is an error and
\* leaves the variable as it was
ScanFloat64(col, held) ==
    IF col = Null THEN [v |-> held, failed |-> TRUE] ELSE [v |-> col, failed |-> FALSE]

\* Scan of a column into a *sql.NullFloat64, and its field Float64
ScanNullFloat64(col) == IF col = Null THEN Quot(0, 1) ELSE col

\* a map with no keys
EmptyMap == [k \in {} |-> 0]

\* (mutant) the aggregates are taken over the moving rows only.
BasicStatsMoving(table) ==
    LET q == SelectSeq(table, LAMBDA x : x.speed > 0)
    IN [total |-> Len(table), avg |-> AvgSpeed(q), max |-> MaxSpeed(q), min |-> MinSpeed(q)]

\* `SELECT COUNT(*), AVG(speed), MAX(speed), MIN(speed) FROM vehicles`
BasicStats(table) ==
    [total |-> Len(table), avg |-> AvgSpeed(table),
     max |-> MaxSpeed(table), min |-> MinSpeed(table)]

\* the counts by status, by occupancy and by motion that both summaries hold
CommonStats(table) ==
    [in_transit |-> Len(SelectSeq(table, LAMBDA x : x.current_status = "IN_TRANSIT_TO")),
     stopped |-> Len(SelectSeq(table, LAMBDA x : x.current_status = "STOPPED_AT")),
     incoming |-> Len(SelectSeq(table, LAMBDA x : x.current_status = "INCOMING_AT")),
     moving_vehicles |-> Len(SelectSeq(table, LAMBDA x : x.speed > 0)),
     stationary_vehicles |-> Len(SelectSeq(table, LAMBDA x : x.speed = 0))]

\* VehicleStore.GetSummaryStats: its error and the map it returns
VehicleStore_GetSummaryStats(table) ==
    LET b == BasicStats(table)
        c == CommonStats(table)
        occ(s) == ScanNullFloat64(OccupancyPercent(table, s))
    IN [err |-> "nil",
        val |->
          [total_vehicles |-> b.total,
           average_speed |-> SprintfMph(ScanNullFloat64(b.avg)),
           max_speed |-> SprintfMph(ScanNullFloat64(b.max)),
           min_speed |-> SprintfMph(ScanNullFloat64(b.min)),
           occupancy_many_seats |-> SprintfPct(occ("MANY_SEATS_AVAILABLE")),
           occupancy_few_seats |-> SprintfPct(occ("FEW_SEATS_AVAILABLE")),
           occupancy_unknown |-> SprintfPct(occ("UNKNOWN")),
           percent_moving |->
               IF b.total > 0 THEN SprintfPct(Quot(100 * c.moving_vehicles, b.total))
               ELSE ZeroPct]
          @@ c]

\* (mutant) the offset is counted over all rows and taken among all rows.
PercentileAllRows(table, mul, div, tie) ==
    LET sorted == OrderBy(table, BySpeed(table), tie)
        row == LimitOffset(sorted, 1, (Len(table) * mul) \div div)
    IN IF row = <<>> THEN Quot(0, 1) ELSE Quot(row[1].speed, 1)

\* `SELECT speed FROM vehicles WHERE speed > 0 ORDER BY speed LIMIT 1 OFFSET
\* (SELECT COUNT(*) FROM vehicles WHERE speed > 0) * mul / div`, scanned into
\* a float64 that holds 0: no row leaves the 0
Percentile(table, mul, div, tie) ==
    LET moving == SelectSeq(table, LAMBDA x : x.speed > 0)
        sorted == OrderBy(moving, BySpeed(moving), tie)
        row == LimitOffset(sorted, 1, (Len(moving) * mul) \div div)
    IN IF row = <<>> THEN Quot(0, 1) ELSE Quot(row[1].speed, 1)

\* ETLPipeline.GetSummaryStats: its error and the map it returns.  The first
\* Scan fails on the NULL that AVG, MAX and MIN give for no rows.
ETLPipeline_GetSummaryStats(table, tie) ==
    LET b == BasicStats(table)
        c == CommonStats(table)
        zero == Quot(0, 1)
        many == ScanFloat64(OccupancyPercent(table, "MANY_SEATS_AVAILABLE"), zero)
        few == ScanFloat64(OccupancyPercent(table, "FEW_SEATS_AVAILABLE"), zero)
        unknown == ScanFloat64(OccupancyPercent(table, "UNKNOWN"), zero)
    IN IF ScanFloat64(b.avg, zero).failed \/ ScanFloat64(b.max, zero).failed
          \/ ScanFloat64(b.min, zero).failed
       THEN [err |-> "converting NULL to float64 is unsupported", val |-> <<>>]
       ELSE [err |-> "nil",
             val |->
               [total_vehicles |-> b.total,
                average_speed |-> SprintfMph(b.avg),
                max_speed |-> SprintfMph(b.max),
                min_speed |-> SprintfMph(b.min),
                occupancy_many_seats |-> SprintfPct(many.v),
                occupancy_few_seats |-> SprintfPct(few.v),
                occupancy_unknown |-> SprintfPct(unknown.v),
                outbound_vehicles |-> Len(SelectSeq(table, LAMBDA x : x.direction_id = 0)),
                inbound_vehicles |-> Len(SelectSeq(table, LAMBDA x : x.direction_id = 1))]
               @@ c
               @@ (IF b.total > 0
                   THEN [percent_moving |-> SprintfPct(Quot(100 * c.moving_vehicles, b.total))]
                   ELSE EmptyMap)
               @@ (IF c.moving_vehicles > 0
                   THEN [median_speed |-> SprintfMph(Percentile(table, 1, 2, tie)),
                         speed_90th_percentile |-> SprintfMph(Percentile(table, 9, 10, tie)),
                         speed_95th_percentile |-> SprintfMph(Percentile(table, 95, 100, tie))]
                   ELSE EmptyMap)]

\* (mutant) the rule for 'ynk%' stands before the rule for 'y%'.
RouteTypeCommuterFirst(id) ==
    CASE Like(id, <<"R", "-">>) -> "Red Line"
      [] Like(id, <<"O", "-">>) -> "Orange Line"
      [] Like(id, <<"G", "-">>) -> "Green Line"
      [] Like(id, <<"B", "-">>) -> "Blue Line"
      [] Like(id, <<"y", "n", "k">>) -> "Commuter Rail"
      [] Like(id, <<"y">>) -> "Bus"
      [] OTHER -> "Other"

\* `CASE WHEN id LIKE 'R-%' THEN 'Red Line' ... ELSE 'Other' END`: the first
\* WHEN that holds decides
RouteType(id) ==
    IF Like(id, <<"R", "-">>) THEN "Red Line"
    ELSE IF Like(id, <<"O", "-">>) THEN "Orange Line"
    ELSE IF Like(id, <<"G", "-">>) THEN "Green Line"
    ELSE IF Like(id, <<"B", "-">>) THEN "Blue Line"
    ELSE IF Like(id, <<"y">>) THEN "Bus"
    ELSE IF Like(id, <<"y", "n", "k">>) THEN "Commuter Rail"
    ELSE "Other"

\* the values of route_type, in the order GROUP BY sorts them
RouteTypes ==
    <<"Blue Line", "Bus", "Commuter Rail", "Green Line", "Orange Line", "Other", "Red Line">>

\* fmt.Sprintf("%.2f", x): the text, as its value in hundredths
Sprintf2(x) == [fix |-> RoundDiv(100 * x.num, x.den), places |-> 2, unit |-> ""]

\* one row of the GROUP BY, scanned and formatted
RouteGroup(table, t) ==
    LET q == SelectSeq(table, LAMBDA x : RouteType(x.id) = t)
    IN [route_type |-> t, count |-> Len(q),
        avg_speed |-> Sprintf2(ScanNullFloat64(AvgSpeed(q))),
        max_speed |-> Sprintf2(ScanNullFloat64(MaxSpeed(q)))]

\* (mutant) every route type is listed, also those no row has.
RouteBreakdownAllTypes(table, tie) ==
    LET groups == [k \in DOMAIN RouteTypes |-> RouteGroup(table, RouteTypes[k])]
    IN OrderBy(groups, ByCountDesc(groups), tie)

\* `SELECT CASE ... END as route_type, COUNT(*), AVG(speed), MAX(speed) FROM
\* vehicles GROUP BY route_type ORDER BY count DESC`: one group for each route
\* type some row has
RouteBreakdown(table, tie) ==
    LET present == SelectSeq(RouteTypes,
                       LAMBDA t : \E k \in DOMAIN table : RouteType(table[k].id) = t)
        groups == [k \in DOMAIN present |-> RouteGroup(table, present[k])]
    IN OrderBy(groups, ByCountDesc(groups), tie)

\* the keys of `directions`
Directions ==
    <<"North", "Northeast", "East", "Southeast", "South", "Southwest", "West", "Northwest">>

\* `directions`: the bounds of each sector, in half degrees
DirectionRange(dir) ==
    CASE dir = "North" -> <<675, 45>>
      [] dir = "Northeast" -> <<45, 135>>
      [] dir = "East" -> <<135, 225>>
      [] dir = "Southeast" -> <<225, 315>>
      [] dir = "South" -> <<315, 405>>
      [] dir = "Southwest" -> <<405, 495>>
      [] dir = "West" -> <<495, 585>>
      [] dir = "Northwest" -> <<585, 675>>

\* The orders `for dir, r := range directions` may visit the keys in: Go
\* starts a map iteration where it pleases.
IterationOrders ==
    { [k \in DOMAIN Directions |-> Directions[((k + s - 1) % Len(Directions)) + 1]] :
        s \in 0..(Len(Directions) - 1) }

\* (mutant) North is tested as the other sectors are, min <= bearing < max.
InDirectionNoWrap(dir, bearing) ==
    LET min == DirectionRange(dir)[1]
        max == DirectionRange(dir)[2]
    IN 2 * bearing >= min /\ 2 * bearing < max

\* the condition under which the loop counts `bearing` under dir
InDirection(dir, bearing) ==
    LET min == DirectionRange(dir)[1]
        max == DirectionRange(dir)[2]
    IN IF dir = "North" THEN 2 * bearing >= min \/ 2 * bearing < max
       ELSE 2 * bearing >= min /\ 2 * bearing < max

\* the sector the loop counts `bearing` under when it visits the keys in
\* `order`: the first that matches, "North" when none does
CountedUnder(order, bearing) ==
    LET hits == { k \in DOMAIN order : InDirection(order[k], bearing) }
    IN IF hits = {} THEN "North"
       ELSE order[CHOOSE k \in hits : \A j \in hits : k <= j]

\* (mutant) the counts are not initialized: a sector without rows has no key.
BearingSummarySparse(table, order) ==
    LET counted == { CountedUnder(order, table[k].bearing) : k \in DOMAIN table }
    IN [dir \in counted |->
          Len(SelectSeq(table, LAMBDA x : CountedUnder(order, x.bearing) = dir))]

\* ETLPipeline.GetBearingSummary: every key set to 0, then one count for
\* each row of `SELECT bearing FROM vehicles`
BearingSummary(table, order) ==
    [dir \in { Directions[k] : k \in DOMAIN Directions } |->
        Len(SelectSeq(table, LAMBDA x : CountedUnder(order, x.bearing) = dir))]

\* The arguments GetVehiclesByBearing is called with.
BearingTargets == {10, 90, 350}
BearingDeltas == {0, 20}

\* (mutant) the range is taken round the compass.
VehiclesByBearingWrapped(w, table, target, delta) ==
    queryVehicles(w,
        SelectSeq(table, LAMBDA x :
            \E turn \in {-360, 0, 360} :
                /\ x.bearing + turn >= target - delta
                /\ x.bearing + turn <= target + delta))

\* ETLPipeline.GetVehiclesByBearing: `WHERE bearing BETWEEN ? AND ?` with
\* target - delta and target + delta
VehiclesByBearing(w, table, target, delta) ==
    LET minBearing == target - delta
        maxBearing == target + delta
    IN queryVehicles(w,
           SelectSeq(table, LAMBDA x : x.bearing >= minBearing /\ x.bearing <= maxBearing))

\* what db.Query, db.QueryRow and db.Exec return on a handle that is closed
ErrClosed == "sql: database is closed"

\* (mutant) Close releases nothing: a call on a closed handle is served.
CallWithServed(op, args, e, val) ==
    /\ pc = "idle"
    /\ handle # "none"
    /\ out' = [Result(op, e, val) EXCEPT !.args = args]
    /\ UNCHANGED <<rows, pc, impl, resp, records, now, tx, i, err, calls, clock,
                   handle, schema, engine>>

\* (mutant) the method empties the table it has read.
CallWithConsuming(op, args, e, val) ==
    /\ pc = "idle"
    /\ handle # "none"
    /\ out' = [Result(op, e, val) EXCEPT !.args = args]
    /\ rows' = <<>>
    /\ UNCHANGED <<pc, impl, resp, records, now, tx, i, err, calls, clock,
                   handle, schema, engine>>

\* a call of method op with arguments args on the store: on a closed handle
\* the error of database/sql and no value, else what the method computes
CallWith(op, args, e, val) ==
    /\ pc = "idle"
    /\ handle # "none"
    /\ out' = [(IF handle = "closed" THEN Result(op, ErrClosed, <<>>)
                ELSE Result(op, e, val)) EXCEPT !.args = args]
    /\ UNCHANGED <<rows, pc, impl, resp, records, now, tx, i, err, calls, clock,
                   handle, schema, engine>>

\* a call of a method that takes no argument
Call(op, e, val) == CallWith(op, <<>>, e, val)

\* VehicleStore.GetTop10FastestVehicles / ETLPipeline.GetTop10FastestVehicles
GetTop10FastestVehicles ==
    Call("GetTop10FastestVehicles", "nil", Top10(impl, rows, engine))

\* VehicleStore.GetRouteBreakdown / ETLPipeline.GetRouteBreakdown
GetRouteBreakdown ==
    Call("GetRouteBreakdown", "nil", RouteBreakdown(rows, engine))

\* ETLPipeline.GetBearingSummary
GetBearingSummary ==
    /\ impl = "pipeline"
    /\ \E order \in IterationOrders :
          Call("GetBearingSummary", "nil", BearingSummary(rows, order))

\* ETLPipeline.GetVehiclesByBearing
GetVehiclesByBearing ==
    /\ impl = "pipeline"
    /\ \E target \in BearingTargets, delta \in BearingDeltas :
          CallWith("GetVehiclesByBearing", <<target, delta>>, "nil",
                   VehiclesByBearing(impl, rows, target, delta))

\* VehicleStore.GetSummaryStats / ETLPipeline.GetSummaryStats
GetSummaryStats ==
    LET r == IF impl = "etl" THEN VehicleStore_GetSummaryStats(rows)
             ELSE ETLPipeline_GetSummaryStats(rows, engine)
    IN Call("GetSummaryStats", r.err, r.val)

\* what Scan returns when QueryRow found no row
ErrNoRows == "sql: no rows in result set"

\* ETLPipeline.CountVehicles: SELECT COUNT(*) FROM vehicles
CountVehicles ==
    /\ impl = "pipeline"
    /\ Call("CountVehicles", "nil", Len(rows))

\* The ids GetVehicleSpeed is asked for: one the roster holds, one it lacks.
SpeedIds == {"R-1", "none"}

\* the speed column of the row of table with this id, or the error of a
\* QueryRow that found none and the zero value
VehicleSpeed(table, id) ==
    LET found == SelectSeq(table, LAMBDA row : row.id = id)
    IN IF found = <<>> THEN [err |-> ErrNoRows, val |-> 0]
       ELSE [err |-> "nil", val |-> found[1].speed]

\* ETLPipeline.GetVehicleSpeed
GetVehicleSpeed ==
    /\ impl = "pipeline"
    /\ \E id \in SpeedIds :
          LET r == VehicleSpeed(rows, id)
          IN CallWith("GetVehicleSpeed", <<id>>, r.err, r.val)

(***************************************************************************)
(* The life of a store: constructed (which runs the schema), initialized   *)
(* again, loaded by a caller, queried, closed, constructed again on the    *)
(* same file.                                                              *)
(***************************************************************************)

\* (mutant) the script drops the table before it creates it.
ExecSchemaDropFirst(sch, table) ==
    [schema |-> sch \cup Objects, rows |-> <<>>, err |-> "nil"]

\* db.Exec(schema): CREATE TABLE IF NOT EXISTS vehicles; CREATE INDEX IF NOT
\* EXISTS idx_updated_at, idx_label.  What exists is left as it is.
ExecSchema(sch, table) ==
    [schema |-> sch \cup Objects,
     rows |-> IF "vehicles" \in sch THEN table ELSE <<>>,
     err |-> "nil"]

\* sql.Open on the database file and the schema run on it; an error of the
\* schema leaves the caller without a store.
Construct(op) ==
    /\ pc = "idle"
    /\ handle \in {"none", "closed"}
    /\ LET r == ExecSchema(schema, rows)
       IN /\ schema' = r.schema
          /\ rows' = r.rows
          /\ out' = Result(op, r.err, <<>>)
          /\ handle' = IF r.err = "nil" THEN "open" ELSE handle
    /\ UNCHANGED <<pc, impl, resp, records, now, tx, i, err, calls, clock, engine>>

\* vehiclestore.NewVehicleStore
NewVehicleStore == impl = "etl" /\ Construct("NewVehicleStore")

\* pipeline.NewETLPipeline
NewETLPipeline == impl = "pipeline" /\ Construct("NewETLPipeline")

\* VehicleStore.Init, called on a store that was constructed
VehicleStore_Init ==
    /\ pc = "idle"
    /\ impl = "etl"
    /\ handle # "none"
    /\ LET r == ExecSchema(schema, rows)
       IN IF handle = "closed"
          THEN /\ out' = Result("Init", ErrClosed, <<>>)
               /\ UNCHANGED <<schema, rows>>
          ELSE /\ schema' = r.schema
               /\ rows' = r.rows
               /\ out' = Result("Init", r.err, <<>>)
    /\ UNCHANGED <<pc, impl, resp, records, now, tx, i, err, calls, clock, handle,
                   engine>>

\* VehicleStore.Close / ETLPipeline.Close: db.Close(), which returns nil also
\* on a handle that is closed already
Close ==
    /\ pc = "idle"
    /\ handle # "none"
    /\ handle' = "closed"
    /\ out' = Result("Close", "nil", <<>>)
    /\ UNCHANGED <<rows, pc, impl, resp, records, now, tx, i, err, calls, clock, schema,
                   engine>>

\* The batches a caller hands to Load.
LoadBatches ==
    { <<>>,
      <<VehicleRecord("R-1", 50, 45, "IN_TRANSIT_TO", "UNKNOWN")>>,
      <<VehicleRecord("Z", 50, 45, "IN_TRANSIT_TO", "UNKNOWN")>>,
      <<VehicleRecord("R-1", 50, 45, "IN_TRANSIT_TO", "UNKNOWN"),
        VehicleRecord("Z", 50, 45, "IN_TRANSIT_TO", "UNKNOWN")>> }

\* A caller invokes Load(records) on the store, as the tests do; the steps of
\* Load follow.
CallLoad ==
    /\ pc = "idle"
    /\ handle # "none"
    /\ records' \in LoadBatches
    /\ pc' = "transformed"
    /\ calls' = <<>>
    /\ err' = "nil"
    /\ out' = NoResult
    /\ UNCHANGED <<rows, impl, resp, now, tx, i, clock, handle, schema, engine>>

\* what SQLite answers a statement that meets the lock of a writer
ErrLocked == "database is locked"

\* (mutant) the reader shares the connection of the transaction and sees its
\* writes before the commit.
ReaderViewDirty(committed, pending) == pending

\* The rows a statement outside the transaction reads while Load holds its
\* transaction open between r.db.Begin() and tx.Commit(): database/sql gives
\* the transaction a connection of its own, and SQLite shows the other
\* connections only what is committed.
ReaderView(committed, pending) == committed

\* GetTop10FastestVehicles called by another goroutine or process while Load
\* is between Begin and Commit: it reads what is committed, or it meets the
\* writer's lock and returns the error.
ConcurrentGetTop10FastestVehicles ==
    /\ pc \in {"begun", "prepared"}
    /\ \/ out' = Result("GetTop10FastestVehicles", "nil",
                        Top10(impl, ReaderView(rows, tx), engine))
       \/ out' = Result("GetTop10FastestVehicles", ErrLocked, <<>>)
    /\ UNCHANGED <<rows, pc, impl, resp, records, now, tx, i, err, calls, clock,
                   handle, schema, engine>>

\* Each query, tried on each of the stores, on an open handle.
InitQ ==
    /\ pc = "idle"
    /\ impl \in {"etl", "pipeline"}
    /\ handle = "open"
    /\ schema = Objects
    /\ rows \in Stores(impl)
    /\ resp = NoResponse
    /\ records = <<>>
    /\ now = ZeroTime
    /\ tx = <<>>
    /\ i = 1
    /\ err = "nil"
    /\ calls = <<>>
    /\ clock = 0
    /\ out = NoResult
    /\ engine \in TieOrders

NextQ ==
    \/ GetTop10FastestVehicles
    \/ GetSummaryStats
    \/ GetRouteBreakdown
    \/ GetBearingSummary
    \/ GetVehiclesByBearing
    \/ CountVehicles
    \/ GetVehicleSpeed

SpecQ == InitQ /\ [][NextQ]_vars

\* Most rows the database file holds when the life of a store starts.
MaxHeld == 2

\* The life of a store: a database file that is new, or one that an earlier
\* process left with the table and some rows, and a process that constructs
\* the store on it, calls its methods, closes it and constructs it again.
InitL ==
    /\ pc = "idle"
    /\ impl \in {"etl", "pipeline"}
    /\ handle = "none"
    /\ \/ schema = {} /\ rows = <<>>
       \/ /\ schema = Objects
          /\ rows \in { UpsertAll(<<>>, Fleet(0, n), impl) : n \in 0..MaxHeld }
    /\ resp = NoResponse
    /\ records = <<>>
    /\ now = ZeroTime
    /\ tx = <<>>
    /\ i = 1
    /\ err = "nil"
    /\ calls = <<>>
    /\ clock = 0
    /\ out = NoResult
    /\ engine \in TieOrders

NextL ==
    \/ NewVehicleStore
    \/ NewETLPipeline
    \/ VehicleStore_Init
    \/ Close
    \/ CallLoad
    \/ LoadBegin
    \/ LoadPrepare
    \/ LoadExec
    \/ LoadCommit
    \/ ConcurrentGetTop10FastestVehicles
    \/ GetTop10FastestVehicles
    \/ GetSummaryStats
    \/ GetRouteBreakdown
    \/ GetBearingSummary
    \/ GetVehiclesByBearing

SpecL == InitL /\ [][NextL]_vars

(***************************************************************************)
(* The bearing summary on bearings of any sign and size: the column is an  *)
(* INTEGER and the feed's bearing is stored as it came.                    *)
(***************************************************************************)

\* The largest bearing, either side of zero, of the first row.
MaxBearing == 400

\* a store of two rows, the second two full turns further than the first
TurnedStore(b) ==
    UpsertAll(<<>>,
              <<VehicleRecord("R-1", 30, b, "IN_TRANSIT_TO", "UNKNOWN"),
                VehicleRecord("O-2", 0, b + 720, "STOPPED_AT", "UNKNOWN")>>,
              "pipeline")

InitB ==
    /\ pc = "idle"
    /\ impl = "pipeline"
    /\ handle = "open"
    /\ schema = Objects
    /\ rows \in { TurnedStore(b) : b \in (-MaxBearing)..MaxBearing }
    /\ resp = NoResponse
    /\ records = <<>>
    /\ now = ZeroTime
    /\ tx = <<>>
    /\ i = 1
    /\ err = "nil"
    /\ calls = <<>>
    /\ clock = 0
    /\ out = NoResult
    /\ engine = "rowid"

NextB == GetBearingSummary

SpecB == InitB /\ [][NextB]_vars

(***************************************************************************)
(* The program, process after process on one database file: each process   *)
(* constructs the store, runs the pipeline or asks queries, and closes.     *)
(***************************************************************************)

InitM ==
    /\ pc = "idle"
    /\ impl \in {"etl", "pipeline"}
    /\ handle = "none"
    /\ schema = {}
    /\ rows = <<>>
    /\ resp = NoResponse
    /\ records = <<>>
    /\ now = ZeroTime
    /\ tx = <<>>
    /\ i = 1
    /\ err = "nil"
    /\ calls = <<>>
    /\ clock = 0
    /\ out = NoResult
    /\ engine \in TieOrders

NextM ==
    \/ NewVehicleStore
    \/ NewETLPipeline
    \/ VehicleStore_Init
    \/ Close
    \/ FetchVehicles
    \/ Extract
    \/ ExtractFailed
    \/ TransformVehicles
    \/ Transform
    \/ LoadBegin
    \/ LoadPrepare
    \/ LoadExec
    \/ LoadCommit
    \/ GetTop10FastestVehicles
    \/ GetSummaryStats
    \/ GetRouteBreakdown
    \/ GetBearingSummary
    \/ GetVehiclesByBearing

SpecM == InitM /\ [][NextM]_vars

(***************************************************************************)
(* Properties                                                              *)
(***************************************************************************)

RowSet(table) == { table[k] : k \in DOMAIN table }

RowIds(table) == { table[k].id : k \in DOMAIN table }

\* the same rows: the same ids with the same value in every column, and as
\* many of them
SameRows(t1, t2) == RowSet(t1) = RowSet(t2) /\ Len(t1) = Len(t2)

\* row holds the values of record r in every column (a timestamp column holds
\* the instant and the zone of the record's time)
HoldsRecord(row, r) ==
    /\ row.id = r.ID
    /\ row.label = r.Label
    /\ row.latitude = r.Latitude
    /\ row.longitude = r.Longitude
    /\ row.speed = r.Speed
    /\ row.direction_id = r.DirectionID
    /\ row.current_status = r.CurrentStatus
    /\ row.occupancy_status = r.OccupancyStatus
    /\ row.bearing = r.Bearing
    /\ row.updated_at.wall - row.updated_at.off = r.UpdatedAt.unix
    /\ row.updated_at.off = r.UpdatedAt.off
    /\ row.ingested_at.wall - row.ingested_at.off = r.IngestedAt.unix
    /\ row.ingested_at.off = r.IngestedAt.off

\* the loop of Load has executed every record of the batch
LoopDone == pc = "prepared" /\ i > Len(records)

\* this step is Load returning nil / returning an error
LoadSucceeds == LoopDone /\ pc' = "idle" /\ err' = "nil"

InLoad == pc \in {"transformed", "begun", "prepared"}

\* C1: upsert is idempotent.  Once Load has executed a whole batch on the
\* store, executing the same batch again on the result leaves the same rows:
\* the same ids, the same value in every column, the same number of rows.
C1_UpsertIdempotent ==
    LoopDone => SameRows(UpsertAll(tx, records, impl), tx)

\* C1 witness: a batch of two records has been executed on a store that held
\* rows, and it changed them.
C1_Witness ==
    /\ LoopDone
    /\ Len(records) = 2
    /\ rows # <<>>
    /\ ~SameRows(tx, rows)

\* C2: upsert is all-or-nothing.  No step of Load changes the committed rows
\* but the commit that succeeds; a Load that fails at begin, at prepare, at the
\* insert of a record or at commit returns an error and leaves the rows as
\* they were; a Load that succeeds has written every record of the batch.
C2_AllOrNothing ==
    [][InLoad =>
         IF LoadSucceeds
         THEN /\ rows' = UpsertAll(rows, records, impl)
              /\ \A k \in DOMAIN records : records[k].ID \in RowIds(rows')
         ELSE /\ rows' = rows
              /\ pc' = "idle" => err' # "nil"]_vars

\* C2 witness: Load has written a record of its batch that changes the rows,
\* and the insert of the next record, or the commit, can fail.
C2_Witness ==
    /\ pc = "prepared"
    /\ i = 2
    /\ Len(records) = 2
    /\ rows # <<>>
    /\ ~SameRows(tx, rows)

\* C3: upsert updates in place.  Executing a record whose id the table holds
\* replaces that row by the record's values in every column, leaves the rows
\* of the other ids as they were and keeps the number of rows; executing a
\* record with a new id adds exactly one row.  A batch that is committed
\* changes the number of committed rows by the number of its new ids.
C3_UpdateInPlace ==
    [][/\ (pc = "prepared" /\ pc' = "prepared" /\ i' = i + 1) =>
            LET r == records[i]
                others(t) == { t[k] : k \in { j \in DOMAIN t : t[j].id # r.ID } }
                mine(t) == { k \in DOMAIN t : t[k].id = r.ID }
            IN /\ Cardinality(mine(tx')) = 1
               /\ \A k \in mine(tx') : HoldsRecord(tx'[k], r)
               /\ others(tx') = others(tx)
               /\ Len(tx') = IF mine(tx) # {} THEN Len(tx) ELSE Len(tx) + 1
       /\ LoadSucceeds =>
            Len(rows') = Len(rows)
                + Cardinality({ records[k].ID : k \in DOMAIN records } \ RowIds(rows))
      ]_vars

\* C3 witness: a record has replaced a row of its id that held another speed,
\* next to a row of another id.
C3_Witness ==
    /\ pc = "prepared"
    /\ i > 1
    /\ Len(tx) = 2
    /\ \E k \in DOMAIN rows, j \in DOMAIN tx :
          /\ rows[k].id = records[i - 1].ID
          /\ tx[j].id = rows[k].id
          /\ tx[j].speed # rows[k].speed
          /\ Len(rows) = 2

\* the entries of the batch the filter keeps, in the order of the batch
Retained == SelectSeq(resp.data, LAMBDA v : v.ID # "" /\ v.Label # "")

\* the positions of the batch that hold an empty id or an empty label
Rejected == { k \in DOMAIN resp.data : resp.data[k].ID = "" \/ resp.data[k].Label = "" }

\* a normalizer has returned
Normalized == pc = "transformed"

\* C4: the output of a normalizer is the input without the entries whose id
\* or label is empty, in input order and with duplicates kept: its length is
\* the length of the input less the number of such entries, and its k-th
\* record carries the id and the label of the k-th entry kept.
C4_FilterKeepsOrder ==
    Normalized =>
        /\ Len(records) = Len(resp.data) - Cardinality(Rejected)
        /\ Len(records) = Len(Retained)
        /\ \A k \in DOMAIN records :
              /\ records[k].ID = Retained[k].ID
              /\ records[k].Label = Retained[k].Label

\* C4 witness: of two entries, the first with an empty label, the second is
\* the one that comes out.
C4_Witness ==
    /\ Normalized
    /\ Len(resp.data) = 2
    /\ resp.data[1].ID # ""
    /\ resp.data[1].Label = ""
    /\ Len(records) = 1
    /\ records[1].ID = resp.data[2].ID

\* C5: for every entry kept, a nil speed comes out as speed 0 and a nil
\* bearing as bearing 0; a bearing that is present comes out unchanged.
C5_NullableDefaults ==
    Normalized =>
        \A k \in DOMAIN records :
            /\ Retained[k].Speed = Nil => records[k].Speed = 0
            /\ Retained[k].Bearing = Nil => records[k].Bearing = 0
            /\ Retained[k].Bearing # Nil => records[k].Bearing = Retained[k].Bearing[1]

\* C5 witness: an entry with neither speed nor bearing and an entry with a
\* bearing have both come out.
C5_Witness ==
    /\ Normalized
    /\ Len(records) = 2
    /\ Retained[1].Speed = Nil
    /\ Retained[1].Bearing = Nil
    /\ Retained[2].Bearing # Nil
    /\ records[2].Bearing # 0

\* C6: every record a normalizer returns has a speed of at least 0.
C6_SpeedNonNegative ==
    Normalized => \A k \in DOMAIN records : records[k].Speed >= 0

\* C7: for every entry kept, each of the two statuses comes out as "UNKNOWN"
\* when it was empty and unchanged when it was not, whatever the other one is.
C7_StatusIndependent ==
    Normalized =>
        \A k \in DOMAIN records :
            /\ records[k].CurrentStatus =
                  IF Retained[k].CurrentStatus = "" THEN "UNKNOWN"
                  ELSE Retained[k].CurrentStatus
            /\ records[k].OccupancyStatus =
                  IF Retained[k].OccupancyStatus = "" THEN "UNKNOWN"
                  ELSE Retained[k].OccupancyStatus

\* C7 witness: an entry with an empty currentStatus and an occupancyStatus,
\* and an entry with a currentStatus and an empty occupancyStatus, have come
\* out.
C7_Witness ==
    /\ Normalized
    /\ Len(records) = 2
    /\ Retained[1].CurrentStatus = ""
    /\ Retained[1].OccupancyStatus # ""
    /\ records[1].OccupancyStatus # "UNKNOWN"
    /\ Retained[2].CurrentStatus # ""
    /\ Retained[2].OccupancyStatus = ""
    /\ records[2].CurrentStatus # "UNKNOWN"

\* C9: a call of a normalizer reads the wall clock once: `now` is the instant
\* the clock shows, every record of the output has it as ingestedAt, and every
\* entry kept comes out, one whose timestamp does not parse with that same
\* value as updatedAt.
C9_OneNowPerCall ==
    Normalized =>
        /\ now.unix = TimeNow(clock).unix
        /\ Len(records) = Len(Retained)
        /\ \A k \in DOMAIN records :
              /\ records[k].IngestedAt = now
              /\ Retained[k].UpdatedAt.enc # "rfc3339" => records[k].UpdatedAt = now

\* C9 witness: an entry whose timestamp parses and one whose timestamp does
\* not have come out of one call.
C9_Witness ==
    /\ Normalized
    /\ Len(records) = 2
    /\ Retained[1].UpdatedAt.enc = "rfc3339"
    /\ records[1].UpdatedAt # now
    /\ Retained[2].UpdatedAt.enc # "rfc3339"

\* how many entries of sequence q satisfy P
Count(q, P(_)) == Cardinality({ k \in DOMAIN q : P(q[k]) })

\* C8: a normalizer forwards every entry kept, also those that share an id;
\* after a Load that succeeds the store holds, for each id of the batch,
\* exactly one row, with the values of the last record of that id in the
\* batch.
C8_LastWriteWins ==
    [][/\ (pc = "fetched" /\ pc' = "transformed") =>
            \A v \in { resp.data[k] : k \in DOMAIN resp.data } :
                (v.ID # "" /\ v.Label # "") =>
                    Count(records', LAMBDA r : r.ID = v.ID)
                      = Count(resp.data, LAMBDA u : u.ID = v.ID /\ u.Label # "")
       /\ LoadSucceeds =>
            \A k \in DOMAIN records :
                (\A j \in DOMAIN records : j > k => records[j].ID # records[k].ID) =>
                    /\ Count(rows', LAMBDA row : row.id = records[k].ID) = 1
                    /\ \A m \in DOMAIN rows' :
                          rows'[m].id = records[k].ID => HoldsRecord(rows'[m], records[k])
      ]_vars

\* C8 witness: Load has executed a batch of two records of one id that differ
\* in speed, on a store that held that id.
C8_Witness ==
    /\ LoopDone
    /\ Len(records) = 2
    /\ records[1].ID = records[2].ID
    /\ records[1].Speed # records[2].Speed
    /\ records[1].ID \in RowIds(rows)
    /\ Len(tx) = Len(rows)

\* the fetch has failed: a transport error, a status other than 200, or a
\* body that cannot be read or is not JSON
BadResponse(r) == r.transport # "ok" \/ r.status # 200 \/ ~r.readable \/ ~r.json

\* C10: a fetch leaves the rows alone, and a Run whose fetch failed returns
\* the error "extract failed" at once: it calls neither normalizer nor Load,
\* opens no transaction, and the rows are those before the Run.
C10_FetchFailureAborts ==
    [][/\ (pc = "idle" /\ pc' = "fetched") => rows' = rows
       /\ (pc = "fetched" /\ BadResponse(resp)) =>
            /\ pc' = "idle"
            /\ err' = "extract failed"
            /\ rows' = rows
            /\ calls' = <<"Extract">>
            /\ records' = <<>>
            /\ tx' = <<>>
      ]_vars

\* C10 witness: a Run on a store that holds rows has returned "extract
\* failed" with only the fetch called.
C10_Witness ==
    /\ pc = "idle"
    /\ err = "extract failed"
    /\ calls = <<"Extract">>
    /\ rows # <<>>

(***************************************************************************)
(* Properties of the queries and of the life of a store                    *)
(***************************************************************************)

\* the last call on the store was method op, made on an open handle
Answered(op) == out.op = op /\ handle = "open"

\* the ids of the records of a query result
ResultIds(val) == { val[k].ID : k \in DOMAIN val }

\* C11: on an open store the top-10-by-speed query returns, without error,
\* min(10, number of rows) records of distinct stored rows, in non-increasing
\* order of speed, each with a speed at least that of every stored row it
\* does not return.
C11_Top10BySpeed ==
    Answered("GetTop10FastestVehicles") =>
        /\ out.err = "nil"
        /\ Len(out.val) = (IF Len(rows) < 10 THEN Len(rows) ELSE 10)
        /\ Cardinality(ResultIds(out.val)) = Len(out.val)
        /\ \A k \in DOMAIN out.val :
              \E j \in DOMAIN rows :
                  rows[j].id = out.val[k].ID /\ rows[j].speed = out.val[k].Speed
        /\ \A k \in DOMAIN out.val :
              /\ k < Len(out.val) => out.val[k].Speed >= out.val[k + 1].Speed
              /\ \A j \in DOMAIN rows :
                    rows[j].id \notin ResultIds(out.val) => out.val[k].Speed >= rows[j].speed

\* C11 witness: the query has answered on a store of more than ten rows, two
\* of the rows returned at one speed, and the fastest row not the first
\* stored.
C11_Witness ==
    /\ Answered("GetTop10FastestVehicles")
    /\ Len(rows) > 10
    /\ Len(out.val) = 10
    /\ \E k \in 1..9 : out.val[k].Speed = out.val[k + 1].Speed
    /\ out.val[1].ID # rows[1].id

\* the speeds the store holds
Speeds == { rows[k].speed : k \in DOMAIN rows }

\* text is the number x printed with two decimals and the unit mph
RendersMph(text, x) == text = [fix |-> 100 * x, places |-> 2, unit |-> "mph"]

\* C12: on a store that holds rows the summary reports, without error,
\* total_vehicles as the number of rows, average_speed as the sum of the
\* speeds of all rows divided by the number of rows (printed with two
\* decimals, so within half a hundredth of it), max_speed as the largest and
\* min_speed as the smallest speed stored.
C12_SummaryExtremes ==
    (Answered("GetSummaryStats") /\ rows # <<>>) =>
        /\ out.err = "nil"
        /\ out.val.total_vehicles = Len(rows)
        /\ out.val.average_speed.unit = "mph"
        /\ out.val.average_speed.places = 2
        /\ LET d == out.val.average_speed.fix * Len(rows) - 100 * SumSpeed(rows)
           IN 2 * d <= Len(rows) /\ -2 * d <= Len(rows)
        /\ \E m \in Speeds :
              /\ \A s \in Speeds : s <= m
              /\ RendersMph(out.val.max_speed, m)
        /\ \E m \in Speeds :
              /\ \A s \in Speeds : s >= m
              /\ RendersMph(out.val.min_speed, m)

\* C12 witness: the summary has answered on a store that holds a stationary
\* row and rows at several speeds, whose mean is not a whole number.
C12_Witness ==
    /\ Answered("GetSummaryStats")
    /\ out.err = "nil"
    /\ 0 \in Speeds
    /\ Cardinality(Speeds) >= 3
    /\ out.val.average_speed.fix % 100 # 0
    /\ out.val.max_speed # out.val.average_speed

\* text is "0.0%"
IsZeroPercent(text) == text = [fix |-> 0, places |-> 1, unit |-> "%"]

\* C13: on a store with no rows the summary returns no error, and its result
\* holds percent_moving and the three occupancy percentages, each "0.0%".
C13_EmptySummary ==
    (Answered("GetSummaryStats") /\ rows = <<>>) =>
        /\ out.err = "nil"
        /\ {"percent_moving", "occupancy_many_seats", "occupancy_few_seats",
            "occupancy_unknown"} \subseteq DOMAIN out.val
        /\ IsZeroPercent(out.val.percent_moving)
        /\ IsZeroPercent(out.val.occupancy_many_seats)
        /\ IsZeroPercent(out.val.occupancy_few_seats)
        /\ IsZeroPercent(out.val.occupancy_unknown)

\* the speeds of the moving rows, one entry per row
MovingRows == { k \in DOMAIN rows : rows[k].speed > 0 }

\* v is the speed at zero-based rank r of the moving rows sorted by speed
AtRank(v, r) ==
    /\ Cardinality({ k \in MovingRows : rows[k].speed < v }) <= r
    /\ r < Cardinality({ k \in MovingRows : rows[k].speed <= v })

\* text is the percentile at fraction mul/div of the moving rows
IsPercentile(text, mul, div) ==
    \E k \in MovingRows :
        /\ RendersMph(text, rows[k].speed)
        /\ AtRank(rows[k].speed, (Cardinality(MovingRows) * mul) \div div)

PercentileKeys == {"median_speed", "speed_90th_percentile", "speed_95th_percentile"}

\* C14: a summary that is returned holds, when some row has speed > 0, the
\* median, the 90th and the 95th percentile as the speed at zero-based rank
\* floor(movingCount * f) of the rows with speed > 0 sorted by speed; when no
\* row has speed > 0 it holds none of the three.
C14_Percentiles ==
    (Answered("GetSummaryStats") /\ out.err = "nil") =>
        IF MovingRows = {}
        THEN PercentileKeys \cap DOMAIN out.val = {}
        ELSE /\ PercentileKeys \subseteq DOMAIN out.val
             /\ IsPercentile(out.val.median_speed, 1, 2)
             /\ IsPercentile(out.val.speed_90th_percentile, 9, 10)
             /\ IsPercentile(out.val.speed_95th_percentile, 95, 100)

\* the prefix rules in their order, the bus prefix last
PrefixRules ==
    << [prefix |-> <<"R", "-">>, name |-> "Red Line"],
       [prefix |-> <<"O", "-">>, name |-> "Orange Line"],
       [prefix |-> <<"G", "-">>, name |-> "Green Line"],
       [prefix |-> <<"B", "-">>, name |-> "Blue Line"],
       [prefix |-> <<"y">>, name |-> "Bus"] >>

\* the category of the first rule the id matches, "Other" when it matches none
FirstMatch(id) ==
    LET hits == { k \in DOMAIN PrefixRules : Like(id, PrefixRules[k].prefix) }
    IN IF hits = {} THEN "Other"
       ELSE PrefixRules[CHOOSE k \in hits : \A j \in hits : k <= j].name

\* the sum of the counts of a breakdown
RECURSIVE SumCount(_)
SumCount(q) == IF q = <<>> THEN 0 ELSE Head(q).count + SumCount(Tail(q))

\* C15: the route breakdown partitions the store.  Every row is counted in
\* one category, that of the first rule of the list R-, O-, G-, B-, bus prefix
\* that its id matches, or Other: each category is listed at most once with
\* the number of rows of that category, a category that has rows is listed,
\* the counts add up to the number of rows, and the list is in non-increasing
\* order of count.
C15_RoutePartition ==
    Answered("GetRouteBreakdown") =>
        /\ out.err = "nil"
        /\ \A k, j \in DOMAIN out.val :
              out.val[k].route_type = out.val[j].route_type => k = j
        /\ \A k \in DOMAIN out.val :
              out.val[k].count =
                  Cardinality({ m \in DOMAIN rows : FirstMatch(rows[m].id) = out.val[k].route_type })
        /\ \A m \in DOMAIN rows :
              \E k \in DOMAIN out.val : out.val[k].route_type = FirstMatch(rows[m].id)
        /\ SumCount(out.val) = Len(rows)
        /\ \A k \in DOMAIN out.val :
              k < Len(out.val) => out.val[k].count >= out.val[k + 1].count

\* C15 witness: the breakdown has answered on a store that holds a row of the
\* shadowed prefix ynk and an id in lower case, with at least four categories,
\* two of them with the same count and two with different counts.
C15_Witness ==
    /\ Answered("GetRouteBreakdown")
    /\ \E m \in DOMAIN rows : rows[m].id = "ynk5"
    /\ \E m \in DOMAIN rows : rows[m].id = "g-3"
    /\ Len(out.val) >= 4
    /\ \E k \in 1..(Len(out.val) - 1) : out.val[k].count = out.val[k + 1].count
    /\ out.val[1].count > out.val[Len(out.val)].count
    /\ out.val[1].route_type # "Blue Line"

\* C16: on a store with no rows the route breakdown returns no error and an
\* empty breakdown; on any store it lists no category that has no row.
C16_EmptyBreakdown ==
    Answered("GetRouteBreakdown") =>
        /\ out.err = "nil"
        /\ rows = <<>> => out.val = <<>>
        /\ \A k \in DOMAIN out.val : out.val[k].count > 0

\* C16 witness: the breakdown has answered on a store with no rows.
C16_Witness ==
    /\ Answered("GetRouteBreakdown")
    /\ rows = <<>>
    /\ out.val = <<>>
    /\ out.err = "nil"

\* the names of the eight sectors
SectorNames ==
    {"North", "Northeast", "East", "Southeast", "South", "Southwest", "West", "Northwest"}

\* the sector of a whole number of degrees: 45 degrees wide each, North from
\* 337.5 round to 22.5
SectorOf(b) ==
    IF b >= 338 \/ b <= 22 THEN "North"
    ELSE IF b <= 67 THEN "Northeast"
    ELSE IF b <= 112 THEN "East"
    ELSE IF b <= 157 THEN "Southeast"
    ELSE IF b <= 202 THEN "South"
    ELSE IF b <= 247 THEN "Southwest"
    ELSE IF b <= 292 THEN "West"
    ELSE "Northwest"

\* the sum of the counts of a bearing summary
RECURSIVE SumOver(_, _)
SumOver(f, S) ==
    IF S = {} THEN 0
    ELSE LET d == CHOOSE x \in S : TRUE IN f[d] + SumOver(f, S \ {d})

\* C17: on every store, the empty one included, the bearing summary returns
\* no error and a count for each of the eight sectors and for nothing else;
\* the count of a sector is the number of rows whose bearing lies in it, so
\* each row is counted once and the counts add up to the number of rows; rows
\* with bearing 10 are counted under North, rows with bearing 90 under East.
C17_BearingSummary ==
    Answered("GetBearingSummary") =>
        /\ out.err = "nil"
        /\ DOMAIN out.val = SectorNames
        /\ \A d \in SectorNames :
              out.val[d] = Cardinality({ k \in DOMAIN rows : SectorOf(rows[k].bearing) = d })
        /\ SumOver(out.val, SectorNames) = Len(rows)
        /\ out.val["North"] >= Cardinality({ k \in DOMAIN rows : rows[k].bearing = 10 })
        /\ out.val["East"] >= Cardinality({ k \in DOMAIN rows : rows[k].bearing = 90 })

\* C17 witness: the bearing summary has answered on a store that holds rows
\* with bearing 10, 90, 22, 23 and 360, with a sector that has no row.
C17_Witness ==
    /\ Answered("GetBearingSummary")
    /\ {10, 90, 22, 23, 360} \subseteq { rows[k].bearing : k \in DOMAIN rows }
    /\ out.val["North"] >= 3
    /\ out.val["East"] >= 1
    /\ \E d \in SectorNames : out.val[d] = 0

\* C18: the bearing range filter with target t and tolerance d returns, once
\* each, the stored rows whose bearing b has t - d <= b <= t + d, and no
\* other; the range is not taken round the compass (for t = 350 and d = 20 a
\* row with bearing 5 is left out and a row with bearing 330 is returned).
C18_BearingRange ==
    Answered("GetVehiclesByBearing") =>
        LET t == out.args[1]
            d == out.args[2]
            inRange == { k \in DOMAIN rows :
                            t - d <= rows[k].bearing /\ rows[k].bearing <= t + d }
        IN /\ out.err = "nil"
           /\ ResultIds(out.val) = { rows[k].id : k \in inRange }
           /\ Len(out.val) = Cardinality(inRange)
           /\ \A k \in DOMAIN out.val :
                 \E j \in inRange :
                     rows[j].id = out.val[k].ID /\ rows[j].bearing = out.val[k].Bearing

\* C18 witness: the filter has answered for target 350 and tolerance 20 on a
\* store that holds a row with bearing 5, which it left out, and rows with
\* bearing 330 and 350, which it returned.
C18_Witness ==
    /\ Answered("GetVehiclesByBearing")
    /\ out.args = <<350, 20>>
    /\ \E k \in DOMAIN rows : rows[k].bearing = 5 /\ rows[k].id \notin ResultIds(out.val)
    /\ \E k \in DOMAIN out.val : out.val[k].Bearing = 330
    /\ \E k \in DOMAIN out.val : out.val[k].Bearing = 350

\* this step is a construction of the store, or a call of Init on an open one
InitCalled ==
    \/ out'.op \in {"NewVehicleStore", "NewETLPipeline"}
    \/ out'.op = "Init" /\ handle = "open"

\* C19: initialization is idempotent and keeps the data.  Every construction
\* of a store, on a new database file, on a file that holds rows or again
\* after Close, and every call of Init on an open store, returns no error,
\* leaves the table and both indexes in place and leaves the rows as they
\* were.
C19_InitIdempotent ==
    [][InitCalled =>
          /\ out'.err = "nil"
          /\ handle' = "open"
          /\ schema' = {"vehicles", "idx_updated_at", "idx_label"}
          /\ rows' = rows]_vars

\* C19 witness: a store that was loaded and closed has been constructed again
\* on its file, which holds the rows.
C19_Witness ==
    /\ out.op \in {"NewVehicleStore", "NewETLPipeline"}
    /\ out.err = "nil"
    /\ handle = "open"
    /\ "Z" \in RowIds(rows)
    /\ Len(rows) >= 2

QueryOps ==
    {"GetTop10FastestVehicles", "GetSummaryStats", "GetRouteBreakdown",
     "GetBearingSummary", "GetVehiclesByBearing"}

\* C20: once Close has been called, and until the store is constructed anew,
\* every query returns an error and no value, every Load returns an error
\* without opening a transaction, and the rows stay as they are.
C20_ClosedStoreFails ==
    [][handle = "closed" =>
          /\ rows' = rows
          /\ (out'.op \in QueryOps /\ handle' = "closed") =>
                out'.err # "nil" /\ out'.val = <<>>
          /\ pc = "transformed" => (pc' = "idle" /\ err' # "nil" /\ tx' = <<>>)
          /\ pc' \notin {"begun", "prepared"}]_vars

\* C20 witness: on a store that holds rows and was closed, Load has been
\* called and a query after it has returned an error.
C20_Witness ==
    /\ handle = "closed"
    /\ rows # <<>>
    /\ calls = <<"Load">>
    /\ err = "load failed: failed to begin transaction"
    /\ out.op = "GetSummaryStats"
    /\ out.err # "nil"


(***************************************************************************)
(* Properties of the program over many processes and runs                  *)
(***************************************************************************)

\* C21: no operation deletes a row.  Over every step of the program
\* (constructing the store, Init, each step of a run with its upsert that
\* commits or fails, each query, Close) every id the table holds before the
\* step is held after it, so an id once committed stays in every later state.
C21_NoDeletion == [][RowIds(rows) \subseteq RowIds(rows')]_vars

\* C21: the store holds two ids, has been constructed again or initialized
\* since, and the last run failed in its upsert.
C21_Witness ==
    /\ pc = "idle"
    /\ handle = "open"
    /\ Cardinality(RowIds(rows)) = 2
    /\ out.op \in {"NewVehicleStore", "NewETLPipeline", "Init"}
    /\ err = "load failed: failed to insert record"

\* the records a query result shows for the rows of table
Shown(table) == { ScanRecord(impl, table[k]) : k \in DOMAIN table }

\* the records of a query result
ResultSet(val) == { val[k] : k \in DOMAIN val }

\* C22: a reader that runs while Load holds its transaction open never sees
\* a part of the batch.  What the top-10 query returns between Begin and
\* Commit is the rows as they were before Load began or the rows with the
\* whole batch upserted, never the rows with some of the batch's records.
C22_NoPartialRead ==
    (pc \in {"begun", "prepared"} /\ out.op = "GetTop10FastestVehicles"
        /\ out.err = "nil")
    => ResultSet(out.val) \in { Shown(rows), Shown(UpsertAll(rows, records, impl)) }

\* C22: Load has executed the first of two records of a batch that changes
\* the store, and a reader has been answered during this Load.
C22_Witness ==
    /\ pc = "prepared"
    /\ Len(records) = 2
    /\ i = 2
    /\ ~SameRows(tx, rows)
    /\ ~SameRows(tx, UpsertAll(rows, records, impl))
    /\ out.op = "GetTop10FastestVehicles"
    /\ out.err = "nil"
    /\ ResultSet(out.val) = Shown(rows)
    /\ rows # <<>>

\* the steps of a run in their order
RunSteps == <<"Extract", "Transform", "Load">>

\* C23: in every run the steps are invoked in the order fetch, normalize,
\* upsert, each at most once; the normalizer is invoked only on a response
\* whose fetch succeeded and the upsert only after the normalizer; the run
\* returns nil only by a commit of the whole batch; and a run whose upsert
\* fails returns the error at once, with the rows as they were before it.
C23_RunOrder ==
    [][/\ \E n \in 0..3 : calls' = SubSeq(RunSteps, 1, n)
       /\ (calls' # calls /\ Len(calls') > 1)
              => /\ calls' = Append(calls, RunSteps[Len(calls')])
                 /\ ~BadResponse(resp)
       /\ (pc # "idle" /\ pc' = "idle" /\ err' = "nil")
              => /\ LoopDone
                 /\ calls = RunSteps
                 /\ SameRows(rows', UpsertAll(rows, records, impl))
       /\ (InLoad /\ pc' = "idle" /\ err' # "nil")
              => /\ rows' = rows
                 /\ calls' = RunSteps
                 /\ err' \notin {"nil", "extract failed"}]_vars

\* C23: a run has invoked its three steps and returned the error of a commit
\* that failed, on a store that holds rows of an earlier run.
C23_Witness ==
    /\ pc = "idle"
    /\ calls = RunSteps
    /\ err = "load failed: failed to commit transaction"
    /\ rows # <<>>

\* every query the store offers
AllQueryOps == QueryOps \cup {"CountVehicles", "GetVehicleSpeed"}

\* C24: every query is read-only and repeatable.  A step that answers a
\* query (top 10 by speed, route breakdown, summary, vehicles by bearing,
\* bearing summary, count, speed by id) leaves the rows and every value of
\* every column as they were, and when the call before it, with no upsert in
\* between, was the same query with the same arguments, it returns the same
\* result.
C24_QueriesReadOnly ==
    [][out'.op \in AllQueryOps
          => /\ rows' = rows
             /\ (out.op = out'.op /\ out.args = out'.args) => out' = out]_vars

\* C24: the speed of a stored vehicle has been asked for and returned, on a
\* store that holds rows that tie in speed.
C24_Witness ==
    /\ out.op = "GetVehicleSpeed"
    /\ out.err = "nil"
    /\ \E k \in DOMAIN rows : rows[k].id = out.args[1] /\ rows[k].speed = out.val
    /\ \E j, k \in DOMAIN rows : j # k /\ rows[j].speed = rows[k].speed

\* C25: starting from an empty store, after any sequence of runs, failing at
\* the fetch or in the upsert or committing, every stored row has a non-empty
\* id, a non-empty label, a non-empty current status and a non-empty
\* occupancy status.
C25_StoredRowsComplete ==
    \A k \in DOMAIN rows :
        /\ rows[k].id # ""
        /\ rows[k].label # ""
        /\ rows[k].current_status # ""
        /\ rows[k].occupancy_status # ""

\* C25: after a run that failed in its upsert the store holds two rows, one
\* of them from an entry the feed served with both statuses empty.
C25_Witness ==
    /\ pc = "idle"
    /\ err = "load failed: failed to prepare statement"
    /\ Len(rows) = 2
    /\ \E k \in DOMAIN rows :
          /\ rows[k].id = "y1"
          /\ rows[k].current_status = "UNKNOWN"
          /\ rows[k].occupancy_status = "UNKNOWN"

\* C26: starting from an empty store, after any sequence of runs, a summary
\* that is returned counts every row as moving (speed > 0) or as stationary
\* (speed = 0): moving_vehicles plus stationary_vehicles is total_vehicles.
C26_MovingStationaryTotal ==
    (out.op = "GetSummaryStats" /\ out.err = "nil")
    => out.val.moving_vehicles + out.val.stationary_vehicles
           = out.val.total_vehicles

YnkRows == { m \in DOMAIN rows : Like(rows[m].id, <<"y", "n", "k">>) }

\* C28: in the route breakdown the rule for ynk is shadowed by the rule for y
\* that stands before it.  A row whose id begins with ynk is counted under
\* Bus, and on no store does the breakdown list a category Commuter Rail.
C28_YnkShadowed ==
    Answered("GetRouteBreakdown") =>
        /\ \A k \in DOMAIN out.val : out.val[k].route_type # "Commuter Rail"
        /\ YnkRows # {} =>
              \E k \in DOMAIN out.val :
                  /\ out.val[k].route_type = "Bus"
                  /\ out.val[k].count =
                        Cardinality({ m \in DOMAIN rows : Like(rows[m].id, <<"y">>) })
                  /\ out.val[k].count >= Cardinality(YnkRows)

\* C28: the breakdown has answered on a store that holds an id that begins
\* with ynk and another bus id, and lists both under Bus.
C28_Witness ==
    /\ Answered("GetRouteBreakdown")
    /\ Cardinality(YnkRows) = 1
    /\ \E k \in DOMAIN out.val : out.val[k].route_type = "Bus" /\ out.val[k].count = 2

\* the fractions of the three percentiles, as numerator and denominator
PercentileFractions == {<<1, 2>>, <<9, 10>>, <<95, 100>>}

\* the percentiles a summary reports
Reported == PercentileKeys \cap DOMAIN out.val

\* C29: when some stored row has speed > 0, each rank floor(movingCount * f)
\* is less than movingCount, so every percentile a summary reports is the
\* speed of a stored row with speed > 0, and they are in order: the least
\* speed above 0 <= median <= 90th percentile <= 95th percentile <= max_speed.
C29_PercentilesOrdered ==
    (Answered("GetSummaryStats") /\ out.err = "nil" /\ MovingRows # {}) =>
        /\ \A f \in PercentileFractions :
              (Cardinality(MovingRows) * f[1]) \div f[2] < Cardinality(MovingRows)
        /\ \A key \in Reported :
              \E k \in MovingRows : RendersMph(out.val[key], rows[k].speed)
        /\ Reported = PercentileKeys =>
              /\ \E k \in MovingRows : 100 * rows[k].speed <= out.val.median_speed.fix
              /\ out.val.median_speed.fix <= out.val.speed_90th_percentile.fix
              /\ out.val.speed_90th_percentile.fix <= out.val.speed_95th_percentile.fix
              /\ out.val.speed_95th_percentile.fix <= out.val.max_speed.fix

\* C29: a summary reports three percentiles that differ, on a store that
\* holds rows with speed > 0 and rows without.
C29_Witness ==
    /\ Answered("GetSummaryStats")
    /\ out.err = "nil"
    /\ Reported = PercentileKeys
    /\ Cardinality(MovingRows) < Len(rows)
    /\ out.val.median_speed.fix < out.val.speed_90th_percentile.fix
    /\ out.val.speed_90th_percentile.fix < out.val.speed_95th_percentile.fix
    /\ out.val.speed_95th_percentile.fix = out.val.max_speed.fix

\* the fields of a record that do not hold a time
ValueFields ==
    {"ID", "Label", "Latitude", "Longitude", "Speed", "DirectionID",
     "CurrentStatus", "OccupancyStatus", "Bearing"}

\* what the normalizer of the other wiring returns for the same batch and
\* the same `now`
OtherNormalizer ==
    IF impl = "etl" THEN TransformLoop(resp.data, now)
    ELSE TransformVehiclesLoop(resp.data, now)

\* C30: the two normalizers are equivalent.  On the same batch and the same
\* `now`, TransformVehicles and ETLPipeline.Transform return as many records,
\* and their k-th records agree in id, label, latitude, longitude, speed,
\* direction, current status, occupancy status and bearing.
C30_NormalizersAgree ==
    Normalized =>
        /\ Len(records) = Len(OtherNormalizer)
        /\ \A k \in DOMAIN records : \A f \in ValueFields :
              records[k][f] = OtherNormalizer[k][f]
====
